---- MODULE Spec2Model ----
(***************************************************************************)
(* A model of pininfinity.py: the sequential Chudnovsky engine             *)
(* (chudnovsky_algorithm), the chunked engine (chudnovsky_multithread      *)
(* with chudnovsky_chunk), and the driver calculate_pi with its            *)
(* calculation thread, its timer thread and its polling loop.              *)
(*                                                                         *)
(* Arbitrary-precision values are kept in an exact symbolic form:          *)
(*   K, current_iteration, precision   the integers themselves;            *)
(*   L   the number n with L = 13591409 + 545140134*n;                      *)
(*   X   the exponent e with X = (-262537412640768000)^e;                   *)
(*   M   the sequence of <<K, i>> pairs of the recurrence steps             *)
(*       M <- M*(K^3 - 16K) // i^3 applied to 1, in order;                  *)
(*   C   the context precision at which 426880*sqrt(10005) was computed;   *)
(*   a series term (M*L)/X   the record of M, L, X and the context         *)
(*       precision of the division;                                        *)
(*   S   the sequence of the summands added so far;                        *)
(*   pi  the record of C, S and the context precision of C / S.            *)
(* An option is a sequence of length 0 (None, or unbound) or 1.            *)
(***************************************************************************)
EXTENDS Integers, Sequences, FiniteSets, TLC

\* ---------------------------------------------------------------- bounds
\* The sequential engine starts no term beyond MaxIter.
MaxIter == 20
\* The chunked engine starts no batch beyond MaxBatches.
MaxBatches == 2
\* cpu_count() is drawn from 1..MaxThreads.
MaxThreads == 2
\* The sequential engine run on its own starts no term beyond LongMaxIter.
LongMaxIter == 215

\* ------------------------------------------------------- program constants
BASE_PRECISION == 1000
STEP_INTERVAL == 10
STEP_AMOUNT == 100
K_STEP == 12
K_START == 6
CHUNK_SIZE == 10

None == <<>>
Some(v) == <<v>>

\* time_limit values: None, 0, a positive number of seconds, and a
\* negative number (main() passes on whatever float the user types).
TimeLimits == {None, Some(0), Some(1), Some(-1)}

\* Python truthiness of time_limit (`if time_limit:`).
Truthy(tl) == tl # None /\ tl[1] # 0

VARIABLES
    use_multithread,    \* calculate_pi argument
    time_limit,         \* calculate_pi argument (an option)
    threads,            \* cpu_count()
    stop_event,         \* threading.Event: is it set
    current_results,    \* the shared dict: pi (an option), precision, iterations
    mainPc,             \* position of calculate_pi's own thread
    timerPc,            \* position of timeout_thread
    calcPc,             \* position of calculation_thread and the engine it runs
    interrupted,        \* a KeyboardInterrupt was delivered to calculate_pi
    precision,          \* engine local
    ctxPrec,            \* decimal.getcontext().prec of the calculation thread
    C, M, L, X, K, S,   \* engine locals (C and S are options: unbound at first)
    pi,                 \* engine local (an option: unbound at first)
    current_iteration,  \* engine local
    chunks,             \* chunked engine: the argument tuples of the batch
    results,            \* chunked engine: per task, the option of its result
    retval,             \* the engine's returned tuple (an option)
    cbArgs,             \* the arguments of the reporter call in progress (an option)
    reported,           \* the reporter invocations so far: <<iterations, precision>>
    emitted,            \* the triples the engine has handed out, in order: the
                        \* arguments of each reporter call, then its return value
    final,              \* calculate_pi locals pi_value, precision, iterations
    ret                 \* calculate_pi's return value (an option)

engineVars == <<precision, ctxPrec, C, M, L, X, K, S, pi, current_iteration>>
poolVars == <<chunks, results>>
configVars == <<use_multithread, time_limit, threads>>
mainVars == <<mainPc, interrupted, final, ret>>
vars == <<use_multithread, time_limit, threads, stop_event, current_results,
          mainPc, timerPc, calcPc, interrupted, precision, ctxPrec, C, M, L, X,
          K, S, pi, current_iteration, chunks, results, retval, cbArgs,
          reported, emitted, final, ret>>

\* ------------------------------------------------------ arithmetic steps
\* C = 426880 * Decimal(10005).sqrt() under context precision p
ConstC(p) == [prec |-> p]

\* M * (K**3 - 16 * K) // (i**3)
NextM(m, k, i) == Append(m, <<k, i>>)

\* L + 545140134
NextL(l) == l + 1

\* X * -262537412640768000
NextX(x) == x + 1

\* K + 12
NextK(k) == k + K_STEP

\* (M * L) / X under context precision p
Term(m, l, x, p) == [M |-> m, L |-> l, X |-> x, prec |-> p]

\* S + t
AddTerm(s, t) == Append(s, t)

\* C / S under context precision p
Quotient(c, s, p) == [C |-> c, S |-> s, prec |-> p]

\* The test is true one iteration early.
ShouldRaiseOneEarly(i) == (i + 1) % STEP_INTERVAL = 0

\* current_iteration % 10 == 0
ShouldRaise(i) == i % STEP_INTERVAL = 0

\* The step amount is subtracted.
NewPrecisionLower(p) == p - STEP_AMOUNT

\* A raise by the step interval instead of the step amount.
NewPrecisionByInterval(p) == p + STEP_INTERVAL

\* precision + 100
NewPrecision(p) == p + STEP_AMOUNT

\* The counter is left as it was.
AdvanceNot(i, n) == i

\* current_iteration += n
Advance(i, n) == i + n

\* A set() that toggles the flag.
EventToggle(e) == ~e

\* A set() that leaves the flag as it is.
EventKeep(e) == e

\* stop_event.set()
EventSet(e) == TRUE

\* ------------------------------------------------------------------ Init
Init ==
    /\ use_multithread \in BOOLEAN
    /\ time_limit \in TimeLimits
    /\ threads \in 1..MaxThreads
    /\ stop_event = FALSE
    /\ current_results = [pi |-> None, precision |-> BASE_PRECISION, iterations |-> 0]
    /\ mainPc = "start_thread"
    /\ timerPc = "unstarted"
    /\ calcPc = "unstarted"
    /\ interrupted = FALSE
    /\ precision = 0
    /\ ctxPrec = 0
    /\ C = None
    /\ M = <<>>
    /\ L = 0
    /\ X = 0
    /\ K = 0
    /\ S = None
    /\ pi = None
    /\ current_iteration = 0
    /\ chunks = <<>>
    /\ results = <<>>
    /\ retval = None
    /\ cbArgs = None
    /\ reported = <<>>
    /\ emitted = <<>>
    /\ final = [pi_value |-> None, precision |-> 0, iterations |-> 0]
    /\ ret = None

\* --------------------------------------------------- calculation_thread
\* The loop also ends at an iteration ceiling.
LoopContinuesToCeiling(stop, i) == ~stop /\ i < STEP_INTERVAL

\* while not stop_event.is_set()
LoopContinues(stop, i) == ~stop

\* The flag is also read in the middle of a term and of a batch.
LoopHeadOrMidStep(pc) == pc \in {"seq_head", "mt_head", "seq_K", "mt_pi"}

\* The loop heads: the only places where an engine reads stop_event.
LoopHead(pc) == pc \in {"seq_head", "mt_head"}

\* if use_multithread: ... else: ...
CalcDispatch ==
    /\ calcPc = "begin"
    /\ calcPc' = IF use_multithread THEN "mt_init" ELSE "seq_init"
    /\ UNCHANGED <<configVars, stop_event, current_results, timerPc, mainVars,
                   engineVars, poolVars, retval, cbArgs, reported, emitted>>

\* ------------------------------------------------- chudnovsky_algorithm
\* Lines 19-28: the context precision, C, the recurrence variables, the
\* zeroth approximation.
SeqInit ==
    /\ calcPc = "seq_init"
    /\ precision' = BASE_PRECISION
    /\ ctxPrec' = BASE_PRECISION
    /\ C' = Some(ConstC(BASE_PRECISION))
    /\ M' = <<>>
    /\ L' = 0
    /\ X' = 0
    /\ K' = K_START
    /\ S' = Some(<<Term(<<>>, 0, 0, BASE_PRECISION)>>)
    /\ pi' = Some(Quotient(ConstC(BASE_PRECISION),
                           <<Term(<<>>, 0, 0, BASE_PRECISION)>>, BASE_PRECISION))
    /\ current_iteration' = 0
    /\ calcPc' = "seq_head"
    /\ UNCHANGED <<configVars, stop_event, current_results, timerPc, mainVars,
                   poolVars, retval, cbArgs, reported, emitted>>

\* while not stop_event.is_set(): the flag is clear, the body is entered.
\* current_iteration += 1
SeqEnter ==
    /\ calcPc = "seq_head"
    /\ LoopContinues(stop_event, current_iteration)
    /\ current_iteration < MaxIter
    /\ current_iteration' = Advance(current_iteration, 1)
    /\ calcPc' = "seq_M"
    /\ UNCHANGED <<configVars, stop_event, current_results, timerPc, mainVars,
                   precision, ctxPrec, C, M, L, X, K, S, pi,
                   poolVars, retval, cbArgs, reported, emitted>>

\* while not stop_event.is_set(): the flag is set, the loop is left.
EngineExit ==
    /\ LoopHead(calcPc)
    /\ ~LoopContinues(stop_event, current_iteration)
    /\ calcPc' = IF use_multithread THEN "mt_return" ELSE "seq_return"
    /\ UNCHANGED <<configVars, stop_event, current_results, timerPc, mainVars,
                   engineVars, poolVars, retval, cbArgs, reported, emitted>>

SeqM ==
    /\ calcPc = "seq_M"
    /\ M' = NextM(M, K, current_iteration)
    /\ calcPc' = "seq_L"
    /\ UNCHANGED <<configVars, stop_event, current_results, timerPc, mainVars,
                   precision, ctxPrec, C, L, X, K, S, pi, current_iteration,
                   poolVars, retval, cbArgs, reported, emitted>>

SeqL ==
    /\ calcPc = "seq_L"
    /\ L' = NextL(L)
    /\ calcPc' = "seq_X"
    /\ UNCHANGED <<configVars, stop_event, current_results, timerPc, mainVars,
                   precision, ctxPrec, C, M, X, K, S, pi, current_iteration,
                   poolVars, retval, cbArgs, reported, emitted>>

SeqX ==
    /\ calcPc = "seq_X"
    /\ X' = NextX(X)
    /\ calcPc' = "seq_S"
    /\ UNCHANGED <<configVars, stop_event, current_results, timerPc, mainVars,
                   precision, ctxPrec, C, M, L, K, S, pi, current_iteration,
                   poolVars, retval, cbArgs, reported, emitted>>

SeqS ==
    /\ calcPc = "seq_S"
    /\ S' = Some(AddTerm(S[1], Term(M, L, X, ctxPrec)))
    /\ calcPc' = "seq_K"
    /\ UNCHANGED <<configVars, stop_event, current_results, timerPc, mainVars,
                   precision, ctxPrec, C, M, L, X, K, pi, current_iteration,
                   poolVars, retval, cbArgs, reported, emitted>>

SeqK ==
    /\ calcPc = "seq_K"
    /\ K' = NextK(K)
    /\ calcPc' = "seq_pi"
    /\ UNCHANGED <<configVars, stop_event, current_results, timerPc, mainVars,
                   precision, ctxPrec, C, M, L, X, S, pi, current_iteration,
                   poolVars, retval, cbArgs, reported, emitted>>

\* pi = C / S, then the test of line 45
SeqPi ==
    /\ calcPc = "seq_pi"
    /\ pi' = Some(Quotient(C[1], S[1], ctxPrec))
    /\ calcPc' = IF ShouldRaise(current_iteration) THEN "seq_raise" ELSE "seq_head"
    /\ UNCHANGED <<configVars, stop_event, current_results, timerPc, mainVars,
                   precision, ctxPrec, C, M, L, X, K, S, current_iteration,
                   poolVars, retval, cbArgs, reported, emitted>>

\* Lines 46-48 (sequential) and 94-96 (chunked): the precision is raised.
Raise ==
    /\ calcPc \in {"seq_raise", "mt_raise"}
    /\ ctxPrec' = NewPrecision(precision)
    /\ precision' = NewPrecision(precision)
    /\ calcPc' = "callback"
    /\ UNCHANGED <<configVars, stop_event, current_results, timerPc, mainVars,
                   C, M, L, X, K, S, pi, current_iteration,
                   poolVars, retval, cbArgs, reported, emitted>>

\* update_callback(pi, current_iteration, precision): the call
Callback ==
    /\ calcPc = "callback"
    /\ cbArgs' = Some([pi |-> pi[1], iterations |-> current_iteration,
                        precision |-> precision])
    /\ reported' = Append(reported, <<current_iteration, precision>>)
    /\ emitted' = Append(emitted, [pi |-> pi[1], iterations |-> current_iteration,
                                    precision |-> precision])
    /\ calcPc' = "cb_pi"
    /\ UNCHANGED <<configVars, stop_event, current_results, timerPc, mainVars,
                   engineVars, poolVars, retval>>

\* update_results, lines 166-168: three separate writes of the shared dict
CbPi ==
    /\ calcPc = "cb_pi"
    /\ current_results' = [current_results EXCEPT !.pi = Some(cbArgs[1].pi)]
    /\ calcPc' = "cb_iterations"
    /\ UNCHANGED <<configVars, stop_event, timerPc, mainVars,
                   engineVars, poolVars, retval, cbArgs, reported, emitted>>

CbIterations ==
    /\ calcPc = "cb_iterations"
    /\ current_results' = [current_results EXCEPT !.iterations = cbArgs[1].iterations]
    /\ calcPc' = "cb_precision"
    /\ UNCHANGED <<configVars, stop_event, timerPc, mainVars,
                   engineVars, poolVars, retval, cbArgs, reported, emitted>>

\* the last write; the display of lines 171-178 changes no state; the
\* callback returns to the loop head of the engine that called it
CbPrecision ==
    /\ calcPc = "cb_precision"
    /\ current_results' = [current_results EXCEPT !.precision = cbArgs[1].precision]
    /\ cbArgs' = None
    /\ calcPc' = IF use_multithread THEN "mt_head" ELSE "seq_head"
    /\ UNCHANGED <<configVars, stop_event, timerPc, mainVars,
                   engineVars, poolVars, retval, reported, emitted>>

\* return pi, precision, current_iteration
SeqReturn ==
    /\ calcPc = "seq_return"
    /\ retval' = Some([pi |-> pi[1], precision |-> precision,
                        iterations |-> current_iteration])
    /\ emitted' = Append(emitted, [pi |-> pi[1], iterations |-> current_iteration,
                                    precision |-> precision])
    /\ calcPc' = "store_pi"
    /\ UNCHANGED <<configVars, stop_event, current_results, timerPc, mainVars,
                   engineVars, poolVars, cbArgs, reported>>

\* calculation_thread, lines 195-197: three separate writes
StorePi ==
    /\ calcPc = "store_pi"
    /\ current_results' = [current_results EXCEPT !.pi = Some(retval[1].pi)]
    /\ calcPc' = "store_precision"
    /\ UNCHANGED <<configVars, stop_event, timerPc, mainVars,
                   engineVars, poolVars, retval, cbArgs, reported, emitted>>

StorePrecision ==
    /\ calcPc = "store_precision"
    /\ current_results' = [current_results EXCEPT !.precision = retval[1].precision]
    /\ calcPc' = "store_iterations"
    /\ UNCHANGED <<configVars, stop_event, timerPc, mainVars,
                   engineVars, poolVars, retval, cbArgs, reported, emitted>>

StoreIterations ==
    /\ calcPc = "store_iterations"
    /\ current_results' = [current_results EXCEPT !.iterations = retval[1].iterations]
    /\ calcPc' = "dead"
    /\ UNCHANGED <<configVars, stop_event, timerPc, mainVars,
                   engineVars, poolVars, retval, cbArgs, reported, emitted>>

\* except Exception as e: print(...); the thread ends
CalcExcept ==
    /\ calcPc = "except"
    /\ calcPc' = "dead"
    /\ UNCHANGED <<configVars, stop_event, current_results, timerPc, mainVars,
                   engineVars, poolVars, retval, cbArgs, reported, emitted>>

\* ----------------------------------------------------- chudnovsky_chunk
\* Lines 66-71: the k-th pass of the loop and the passes after it.
RECURSIVE ChunkLoop(_, _, _, _, _, _, _)
ChunkLoop(k, args, m, l, x, kk, sum_total) ==
    IF k = args.chunk_size THEN sum_total
    ELSE LET m2 == NextM(m, kk, args.start_k + k + 1)
             l2 == NextL(l)
             x2 == NextX(x)
         IN  ChunkLoop(k + 1, args, m2, l2, x2, NextK(kk),
                       AddTerm(sum_total, Term(m2, l2, x2, args.precision)))

\* Lines 57-73: M = 1, L = 13591409 + 545140134*start_k, X = 1,
\* K = 6 + 12*start_k, sum_total = 0, under the worker's own context.
chudnovsky_chunk(args) ==
    ChunkLoop(0, args, <<>>, args.start_k, 0, K_START + K_STEP * args.start_k, <<>>)

\* The term indices a chunk's loop runs over: start_k + k for k in
\* range(chunk_size).
ChunkRange(args) == args.start_k .. (args.start_k + args.chunk_size - 1)

\* ----------------------------------------------- chudnovsky_multithread
\* Each chunk of the batch is given a precision one step above the last.
MakeChunksRaising(offset, n, p) ==
    [t \in 1..n |-> [start_k |-> offset + (t - 1), chunk_size |-> CHUNK_SIZE,
                     precision |-> p + (t - 1) * STEP_AMOUNT]]

\* [(i, chunk_size, precision) for i in range(current_iteration,
\*                                            current_iteration + threads)]
MakeChunks(offset, n, p) ==
    [t \in 1..n |-> [start_k |-> offset + (t - 1), chunk_size |-> CHUNK_SIZE,
                     precision |-> p]]

\* sum(results): 0 + results[0] + results[1] + ...
RECURSIVE SumResults(_, _)
SumResults(rs, n) ==
    IF n = 0 THEN <<>> ELSE SumResults(rs, n - 1) \o rs[n][1]

\* Lines 77-83: the context precision, C, the counters, the pool.
MtInit ==
    /\ calcPc = "mt_init"
    /\ precision' = BASE_PRECISION
    /\ ctxPrec' = BASE_PRECISION
    /\ C' = Some(ConstC(BASE_PRECISION))
    /\ current_iteration' = 0
    /\ calcPc' = "mt_head"
    /\ UNCHANGED <<configVars, stop_event, current_results, timerPc, mainVars,
                   M, L, X, K, S, pi, poolVars, retval, cbArgs, reported, emitted>>

\* while not stop_event.is_set(): the flag is clear; the chunks are built
\* and handed to pool.map.
MtEnter ==
    /\ calcPc = "mt_head"
    /\ LoopContinues(stop_event, current_iteration)
    /\ current_iteration < MaxBatches * threads * CHUNK_SIZE
    /\ chunks' = MakeChunks(current_iteration, threads, precision)
    /\ results' = [t \in 1..threads |-> None]
    /\ calcPc' = "mt_map"
    /\ UNCHANGED <<configVars, stop_event, current_results, timerPc, mainVars,
                   engineVars, retval, cbArgs, reported, emitted>>

\* A pool worker runs chudnovsky_chunk on one task of the batch.
WorkerRun(t) ==
    /\ calcPc = "mt_map"
    /\ results[t] = None
    /\ results' = [results EXCEPT ![t] = Some(chudnovsky_chunk(chunks[t]))]
    /\ UNCHANGED <<configVars, stop_event, current_results, timerPc, mainVars,
                   engineVars, chunks, calcPc, retval, cbArgs, reported, emitted>>

\* pool.map returns once every task has its result; S = sum(results)
MtSum ==
    /\ calcPc = "mt_map"
    /\ \A t \in 1..threads : results[t] # None
    /\ S' = Some(SumResults(results, threads))
    /\ calcPc' = "mt_pi"
    /\ UNCHANGED <<configVars, stop_event, current_results, timerPc, mainVars,
                   precision, ctxPrec, C, M, L, X, K, pi, current_iteration,
                   poolVars, retval, cbArgs, reported, emitted>>

\* pi = C / S
MtPi ==
    /\ calcPc = "mt_pi"
    /\ pi' = Some(Quotient(C[1], S[1], ctxPrec))
    /\ calcPc' = "mt_advance"
    /\ UNCHANGED <<configVars, stop_event, current_results, timerPc, mainVars,
                   precision, ctxPrec, C, M, L, X, K, S, current_iteration,
                   poolVars, retval, cbArgs, reported, emitted>>

\* current_iteration += threads * chunk_size, then the test of line 93
MtAdvance ==
    /\ calcPc = "mt_advance"
    /\ current_iteration' = Advance(current_iteration, threads * CHUNK_SIZE)
    /\ calcPc' = IF ShouldRaise(current_iteration') THEN "mt_raise" ELSE "mt_head"
    /\ UNCHANGED <<configVars, stop_event, current_results, timerPc, mainVars,
                   precision, ctxPrec, C, M, L, X, K, S, pi,
                   poolVars, retval, cbArgs, reported, emitted>>

\* return pi, precision, current_iteration: pi is unbound when no batch
\* ran, and reading it raises UnboundLocalError.
MtReturn ==
    /\ calcPc = "mt_return"
    /\ IF pi = None
       THEN /\ calcPc' = "except"
            /\ UNCHANGED <<retval, emitted>>
       ELSE /\ retval' = Some([pi |-> pi[1], precision |-> precision,
                               iterations |-> current_iteration])
            /\ emitted' = Append(emitted, [pi |-> pi[1],
                                            iterations |-> current_iteration,
                                            precision |-> precision])
            /\ calcPc' = "store_pi"
    /\ UNCHANGED <<configVars, stop_event, current_results, timerPc, mainVars,
                   engineVars, poolVars, cbArgs, reported>>

\* An exception of the arithmetic layer or of the reporter's output
\* (MemoryError, OSError at print) leaves the engine at any of its
\* statements that compute or print.
EngineFault ==
    /\ calcPc \in {"seq_M", "seq_S", "seq_pi", "mt_map", "mt_pi", "cb_precision"}
    /\ calcPc' = "except"
    /\ UNCHANGED <<configVars, stop_event, current_results, timerPc, mainVars,
                   engineVars, poolVars, retval, cbArgs, reported, emitted>>

\* -------------------------------------------------------- timeout_thread
\* time.sleep(time_limit) ends; stop_event.set(). A negative time_limit
\* makes time.sleep raise ValueError, which ends the timer thread.
TimerFire ==
    /\ timerPc = "sleeping"
    /\ IF time_limit[1] < 0
       THEN /\ timerPc' = "raised"
            /\ UNCHANGED stop_event
       ELSE /\ stop_event' = EventSet(stop_event)
            /\ timerPc' = "done"
    /\ UNCHANGED <<configVars, current_results, mainVars, calcPc,
                   engineVars, poolVars, retval, cbArgs, reported, emitted>>

\* ---------------------------------------------------------- calculate_pi
\* Lines 211-213: the calculation thread is started.
MainStartThread ==
    /\ mainPc = "start_thread"
    /\ calcPc' = "begin"
    /\ mainPc' = "start_timer"
    /\ UNCHANGED <<configVars, stop_event, current_results, timerPc,
                   interrupted, final, ret,
                   engineVars, poolVars, retval, cbArgs, reported, emitted>>

\* Lines 216-219: if time_limit: the timer thread is started.
MainStartTimer ==
    /\ mainPc = "start_timer"
    /\ timerPc' = IF Truthy(time_limit) THEN "sleeping" ELSE timerPc
    /\ mainPc' = "poll"
    /\ UNCHANGED <<configVars, stop_event, current_results, calcPc,
                   interrupted, final, ret,
                   engineVars, poolVars, retval, cbArgs, reported, emitted>>

\* while thread.is_alive(): thread.join(0.1) -- the thread has ended
MainPollExit ==
    /\ mainPc = "poll"
    /\ calcPc = "dead"
    /\ mainPc' = "finally"
    /\ UNCHANGED <<configVars, stop_event, current_results, timerPc, calcPc,
                   interrupted, final, ret,
                   engineVars, poolVars, retval, cbArgs, reported, emitted>>

\* except KeyboardInterrupt: Ctrl+C arrives while the loop polls
KeyboardInterrupt ==
    /\ mainPc = "poll"
    /\ interrupted' = TRUE
    /\ mainPc' = "finally"
    /\ UNCHANGED <<configVars, stop_event, current_results, timerPc, calcPc,
                   final, ret,
                   engineVars, poolVars, retval, cbArgs, reported, emitted>>

\* finally: stop_event.set()
MainFinallySet ==
    /\ mainPc = "finally"
    /\ stop_event' = EventSet(stop_event)
    /\ mainPc' = "sleep"
    /\ UNCHANGED <<configVars, current_results, timerPc, calcPc,
                   interrupted, final, ret,
                   engineVars, poolVars, retval, cbArgs, reported, emitted>>

\* time.sleep(0.5), then `if current_results["pi"]:`; the else branch
\* returns None, 0
MainTest ==
    /\ mainPc = "sleep"
    /\ IF current_results.pi # None
       THEN /\ mainPc' = "read_pi"
            /\ UNCHANGED ret
       ELSE /\ mainPc' = "done"
            /\ ret' = Some([pi_value |-> None, precision |-> 0])
    /\ UNCHANGED <<configVars, stop_event, current_results, timerPc, calcPc,
                   interrupted, final,
                   engineVars, poolVars, retval, cbArgs, reported, emitted>>

\* Lines 239-241: three separate reads of the shared dict
MainReadPi ==
    /\ mainPc = "read_pi"
    /\ final' = [final EXCEPT !.pi_value = current_results.pi]
    /\ mainPc' = "read_precision"
    /\ UNCHANGED <<configVars, stop_event, current_results, timerPc, calcPc,
                   interrupted, ret,
                   engineVars, poolVars, retval, cbArgs, reported, emitted>>

MainReadPrecision ==
    /\ mainPc = "read_precision"
    /\ final' = [final EXCEPT !.precision = current_results.precision]
    /\ mainPc' = "read_iterations"
    /\ UNCHANGED <<configVars, stop_event, current_results, timerPc, calcPc,
                   interrupted, ret,
                   engineVars, poolVars, retval, cbArgs, reported, emitted>>

MainReadIterations ==
    /\ mainPc = "read_iterations"
    /\ final' = [final EXCEPT !.iterations = current_results.iterations]
    /\ mainPc' = "return"
    /\ UNCHANGED <<configVars, stop_event, current_results, timerPc, calcPc,
                   interrupted, ret,
                   engineVars, poolVars, retval, cbArgs, reported, emitted>>

\* Lines 243-254: display, save, return pi_value, precision
MainReturn ==
    /\ mainPc = "return"
    /\ ret' = Some([pi_value |-> final.pi_value, precision |-> final.precision])
    /\ mainPc' = "done"
    /\ UNCHANGED <<configVars, stop_event, current_results, timerPc, calcPc,
                   interrupted, final,
                   engineVars, poolVars, retval, cbArgs, reported, emitted>>

\* -------------------------------------------------------- specifications
CalcThread ==
    \/ CalcDispatch \/ SeqInit \/ SeqEnter \/ EngineExit \/ SeqM \/ SeqL
    \/ SeqX \/ SeqS \/ SeqK \/ SeqPi \/ Raise \/ Callback \/ CbPi
    \/ CbIterations \/ CbPrecision \/ SeqReturn \/ StorePi \/ StorePrecision
    \/ StoreIterations \/ CalcExcept \/ MtInit \/ MtEnter \/ MtSum \/ MtPi
    \/ MtAdvance \/ MtReturn

Workers == \E t \in 1..threads : WorkerRun(t)

MainThread ==
    \/ MainStartThread \/ MainStartTimer \/ MainPollExit \/ MainFinallySet
    \/ MainTest \/ MainReadPi \/ MainReadPrecision \/ MainReadIterations
    \/ MainReturn

Next == CalcThread \/ Workers \/ TimerFire \/ MainThread \/ KeyboardInterrupt

Spec == Init /\ [][Next]_vars

\* The threads are scheduled fairly; Ctrl+C may never come.
FairSpec ==
    Spec /\ WF_vars(CalcThread) /\ WF_vars(Workers) /\ WF_vars(TimerFire)
         /\ WF_vars(MainThread)

\* The run with exceptions of the arithmetic layer and of the output.
FaultNext == Next \/ EngineFault

FaultSpec == Init /\ [][FaultNext]_vars

\* ------------------------------------ the sequential engine on its own
\* chudnovsky_algorithm(BASE_PRECISION, update_callback, stop_event) called
\* directly, with a reporter that only notes its arguments' iteration and
\* precision, and a caller that sets stop_event at some moment.  One pass of
\* the loop body is one step, so that runs of a few hundred terms are
\* covered.
LongInit ==
    /\ use_multithread = FALSE
    /\ time_limit = None
    /\ threads = 1
    /\ stop_event = FALSE
    /\ current_results = [pi |-> None, precision |-> BASE_PRECISION, iterations |-> 0]
    /\ mainPc = "start_thread"
    /\ timerPc = "unstarted"
    /\ calcPc = "seq_init"
    /\ interrupted = FALSE
    /\ precision = 0
    /\ ctxPrec = 0
    /\ C = None
    /\ M = <<>>
    /\ L = 0
    /\ X = 0
    /\ K = 0
    /\ S = None
    /\ pi = None
    /\ current_iteration = 0
    /\ chunks = <<>>
    /\ results = <<>>
    /\ retval = None
    /\ cbArgs = None
    /\ reported = <<>>
    /\ emitted = <<>>
    /\ final = [pi_value |-> None, precision |-> 0, iterations |-> 0]
    /\ ret = None

\* Lines 31-51: the loop test with the flag clear and the whole body: the
\* counter, M, L, X, S, K, pi under the context precision in force, then
\* at a multiple of 10 the raise and the reporter call.
SeqIteration ==
    /\ calcPc = "seq_head"
    /\ LoopContinues(stop_event, current_iteration)
    /\ current_iteration < LongMaxIter
    /\ LET i == Advance(current_iteration, 1)
           m == NextM(M, K, i)
           l == NextL(L)
           x == NextX(X)
           s == AddTerm(S[1], Term(m, l, x, ctxPrec))
           p == IF ShouldRaise(i) THEN NewPrecision(precision) ELSE precision
       IN  /\ current_iteration' = i
           /\ M' = m
           /\ L' = l
           /\ X' = x
           /\ S' = Some(s)
           /\ K' = NextK(K)
           /\ pi' = Some(Quotient(C[1], s, ctxPrec))
           /\ precision' = p
           /\ ctxPrec' = p
           /\ reported' = IF ShouldRaise(i) THEN Append(reported, <<i, p>>)
                           ELSE reported
    /\ UNCHANGED <<configVars, stop_event, current_results, timerPc, mainVars,
                   calcPc, C, poolVars, retval, cbArgs, emitted>>

\* The caller sets stop_event while the engine runs.
CallerStops ==
    /\ calcPc = "seq_head"
    /\ stop_event' = EventSet(stop_event)
    /\ UNCHANGED <<configVars, current_results, timerPc, mainVars, calcPc,
                   engineVars, poolVars, retval, cbArgs, reported, emitted>>

LongNext == SeqInit \/ SeqIteration \/ CallerStops \/ EngineExit \/ SeqReturn

LongSpec == LongInit /\ [][LongNext]_vars

\* The number of decimal digits of the natural number v.
RECURSIVE Digits(_)
Digits(v) == IF v < 10 THEN 1 ELSE 1 + Digits(v \div 10)

\* The digits of the coefficient that a Decimal needs to hold K exactly:
\* K is the integer itself.
DigitsK(k) == Digits(k)

\* The digits that a Decimal needs to hold L = 13591409 + 545140134*n
\* exactly; the sum is formed in thousands, L \div 1000 =
\* 13591 + 545140*n + (409 + 134*n) \div 1000, and L has three digits more.
DigitsL(n) == 3 + Digits(13591 + 545140 * n + (409 + 134 * n) \div 1000)

\* The digits that a Decimal needs to hold X = (-262537412640768000)^e
\* exactly.  The multiplier is 262537412640768 * 10^3 and 262537412640768 =
\* 2^15 * 3^3 * 23^3 * 29^3 has no factor 5, so the power of ten goes into
\* the Decimal's exponent and the coefficient 262537412640768^e has
\* floor(e * log10(262537412640768)) + 1 digits; log10(262537412640768) =
\* 14.4191912008..., and 14.419191 gives the same floor for every e < 400.
DigitsX(e) == 14 * e + (e * 419191) \div 1000000 + 1

\* ------------------------------------------------------------------ claims
\* The engine has returned (line 53 or 99) in this state.
EngineReturned == retval # None

\* The engine has ended by an exception caught at line 198.
EngineRaised == calcPc \in {"except", "dead"} /\ retval = None

\* What the caller of calculate_pi can tell from lines 238-257: a result
\* (pi_value, precision) or the empty indicator (None, 0).
CallerOutcome == IF ret[1].pi_value # None THEN "result" ELSE "empty"

\* C1: in the sequential engine the n-th reporter invocation carries
\* iteration_count 10*n and precision_digits base_precision + 100*n, and a
\* run that returns after exactly 10 iterations has invoked the reporter
\* exactly once.
C1_SnapshotCadence ==
    ~use_multithread =>
        /\ \A n \in 1..Len(reported) :
              reported[n] = <<10 * n, BASE_PRECISION + 100 * n>>
        /\ (EngineReturned /\ retval[1].iterations = 10) => Len(reported) = 1

C1_Witness ==
    /\ ~use_multithread
    /\ EngineReturned
    /\ retval[1].iterations = 20
    /\ reported = <<<<10, 1100>>, <<20, 1200>>>>

\* C2: at the return of an engine every variable reflects the same
\* completed term (sequential: M, L, X, K, S, pi and current_iteration) or
\* the same completed batch (chunked: S, pi and the offset); nothing is
\* applied in part.
C2_ReturnAtCompletedStep ==
    calcPc \in {"seq_return", "mt_return"} =>
      /\ cbArgs = None
      /\ precision = BASE_PRECISION + 100 * Len(reported)
      /\ ctxPrec = precision
      /\
        IF use_multithread
        THEN IF pi = None
             THEN current_iteration = 0 /\ S = None /\ chunks = <<>>
             ELSE /\ \A t \in 1..threads : results[t] # None
                  /\ S = Some(SumResults(results, threads))
                  /\ pi[1].S = S[1]
                  /\ current_iteration = chunks[1].start_k + threads * CHUNK_SIZE
        ELSE /\ Len(reported) = current_iteration \div 10
             /\ Len(M) = current_iteration
             /\ L = current_iteration
             /\ X = current_iteration
             /\ K = 6 + 12 * current_iteration
             /\ Len(S[1]) = current_iteration + 1
             /\ current_iteration > 0 =>
                   /\ M[current_iteration] = <<K - 12, current_iteration>>
                   /\ S[1][current_iteration + 1].M = M
                   /\ S[1][current_iteration + 1].L = L
                   /\ S[1][current_iteration + 1].X = X
             /\ pi[1].S = S[1]

\* The sequential engine returns after a term that is no step boundary,
\* the flag having been set by the timer.
C2_Witness ==
    /\ ~use_multithread
    /\ calcPc = "seq_return"
    /\ timerPc = "done"
    /\ current_iteration = 13

\* C3: once the stop flag is set the engine eventually returns: an engine
\* that has ended after the flag was set has returned, not raised.
C3_EngineReturnsAfterStop ==
    (stop_event /\ calcPc = "dead") => EngineReturned

\* C4: with a positive time limit and fair scheduling the timer sets the
\* flag and calculate_pi returns; without an interrupt it returns only
\* after the timer has set the flag and the engine thread has ended, and
\* if 10 iterations were completed the result is a real one whose
\* iteration count is positive.
C4_TimeLimitTerminates ==
    /\ (time_limit # None /\ time_limit[1] > 0) =>
          (<>(stop_event /\ timerPc = "done") /\ <>(mainPc = "done"))
    /\ []((time_limit # None /\ time_limit[1] > 0 /\ ~interrupted
           /\ mainPc \in {"finally", "sleep", "read_pi", "read_precision",
                          "read_iterations", "return", "done"}) =>
             (timerPc = "done" /\ stop_event /\ calcPc = "dead"))
    /\ []((time_limit # None /\ time_limit[1] > 0 /\ ~interrupted
           /\ mainPc = "done" /\ current_iteration >= 10) =>
             (/\ ret[1].pi_value # None
              /\ ret[1].pi_value = Some(retval[1].pi)
              /\ final.iterations = current_iteration
              /\ final.iterations > 0))

C4_Witness ==
    /\ time_limit = Some(1)
    /\ ~interrupted
    /\ mainPc = "done"
    /\ current_iteration >= 10
    /\ ret[1].pi_value # None

\* C5: a run with time_limit = 0 has its time limit armed once
\* calculate_pi polls, so that it ends without an interrupt, and it ends
\* with no reporter invocation.
C5_ZeroTimeLimitStops ==
    time_limit = Some(0) =>
        /\ mainPc \notin {"start_thread", "start_timer"} => timerPc # "unstarted"
        /\ reported = <<>>

\* C6: when the engine has raised, the caller of calculate_pi gets an
\* explicit failure: neither a result nor the empty indicator.
C6_FailureSurfaced ==
    (mainPc = "done" /\ ~interrupted /\ EngineRaised) =>
        CallerOutcome \notin {"result", "empty"}

\* C7: the stop flag, once set, stays set, also when it is set a second
\* time; and the engine returns once: its returned value never changes and
\* the thread never re-enters the engine.
C7_StopFlagWriteOnce ==
    [][/\ stop_event => stop_event'
       /\ EngineReturned =>
             /\ retval' = retval
             /\ calcPc' \in {"store_pi", "store_precision", "store_iterations",
                             "dead"}]_vars

\* The timer and the finally block have both set the flag, and the
\* engine has returned.
C7_Witness ==
    /\ stop_event
    /\ timerPc = "done"
    /\ mainPc = "done"
    /\ EngineReturned
    /\ calcPc = "dead"

\* C8: in every snapshot handed to the reporter, pi was computed from the
\* series state after iteration_count terms and precision_digits is the
\* context precision under which that pi was computed.
C8_SnapshotConsistent ==
    cbArgs # None =>
        /\ cbArgs[1].pi.S = S[1]
        /\ cbArgs[1].iterations = current_iteration
        /\ cbArgs[1].pi.prec = cbArgs[1].precision

\* C9: the C used in pi = C / S was computed at the engine's current
\* precision level.
C9_ConstantAtCurrentPrecision ==
    /\ C # None => C[1].prec = precision
    /\ pi # None => pi[1].C.prec = precision

\* C10: the term ranges of a batch are pairwise disjoint, of chunk_size
\* terms each, and cover exactly
\* [offset, offset + worker_count * chunk_size).
C10_ChunksPartitionBatch ==
    chunks # <<>> =>
        LET offset == chunks[1].start_k
        IN  /\ \A t \in 1..threads : Cardinality(ChunkRange(chunks[t])) = CHUNK_SIZE
            /\ \A t, u \in 1..threads :
                  t # u => ChunkRange(chunks[t]) \cap ChunkRange(chunks[u]) = {}
            /\ UNION {ChunkRange(chunks[t]) : t \in 1..threads}
                  = offset .. (offset + threads * CHUNK_SIZE - 1)

\* The sequential series, lines 21-39, as a function of the number of
\* terms: the variables after the n-th pass of the loop body. Every
\* division is taken under context precision p.
RECURSIVE SeqState(_, _)
SeqState(n, p) ==
    IF n = 0
    THEN [M |-> <<>>, L |-> 0, X |-> 0, K |-> K_START,
          S |-> <<Term(<<>>, 0, 0, p)>>]
    ELSE LET q == SeqState(n - 1, p)
             m2 == NextM(q.M, q.K, n)
             l2 == NextL(q.L)
             x2 == NextX(q.X)
         IN  [M |-> m2, L |-> l2, X |-> x2, K |-> NextK(q.K),
              S |-> AddTerm(q.S, Term(m2, l2, x2, p))]

\* The summands of a sum without the precision of their divisions.
Exact(s) == [j \in 1..Len(s) |-> [M |-> s[j].M, L |-> s[j].L, X |-> s[j].X]]

\* C11: after the batches that bring the offset to N, the S of the chunked
\* engine is the S of the sequential engine after N terms: term 0 and the
\* terms 1..N, each with the sequential M, L and X.
C11_ChunkedSumIsSequentialSum ==
    (use_multithread /\ calcPc \in {"mt_raise", "callback", "mt_head", "mt_return"}
        /\ S # None) =>
        Exact(S[1]) = Exact(SeqState(current_iteration, BASE_PRECISION).S)

\* C12: the chunked engine reports on the cadence of the sequential one:
\* the n-th batch brings the offset to n * worker_count * chunk_size, and
\* every reported pair is the sequential pair for its iteration count,
\* precision_digits = base_precision + 100 * (iteration_count / 10).
C12_ChunkedCadenceIsSequential ==
    use_multithread =>
        \A n \in 1..Len(reported) :
            /\ reported[n][1] = n * threads * CHUNK_SIZE
            /\ reported[n][2] = BASE_PRECISION + 100 * (reported[n][1] \div 10)

\* C13: the reporter invocations of a run carry strictly increasing
\* iteration counts, in the sequential and in the chunked engine.
C13_SnapshotsIncrease ==
    \A i, j \in 1..Len(reported) : i < j => reported[i][1] < reported[j][1]

\* The chunked engine has reported its second batch.
C13_Witness ==
    /\ use_multithread
    /\ Len(reported) = 2
    /\ reported[1][1] < reported[2][1]

\* C14: cancellation is the only stopping condition. An engine returns
\* only with the stop flag set; a run with no time limit and no interrupt
\* never sets the flag and never returns; and with fair scheduling such a
\* run reaches every iteration count and precision the bounds allow
\* (MaxIter terms, MaxBatches batches).
C14_OnlyCancellationStops ==
    /\ []((calcPc \in {"seq_return", "mt_return"} \/ EngineReturned) => stop_event)
    /\ []((time_limit = None /\ ~interrupted) =>
             (/\ ~stop_event
              /\ ~EngineReturned
              /\ calcPc # "dead"
              /\ mainPc \in {"start_thread", "start_timer", "poll"}
              /\ ret = None))
    /\ (time_limit = None) =>
          <>(\/ interrupted
             \/ /\ ~use_multithread
                /\ calcPc = "seq_head"
                /\ current_iteration = MaxIter
                /\ precision = BASE_PRECISION + 100 * (MaxIter \div 10)
             \/ /\ use_multithread
                /\ calcPc = "mt_head"
                /\ current_iteration = MaxBatches * threads * CHUNK_SIZE
                /\ precision = BASE_PRECISION + 100 * MaxBatches)

\* A run without time limit and without interrupt has reached the last
\* term the bound allows and still runs.
C14_Witness ==
    /\ time_limit = None
    /\ ~interrupted
    /\ ~use_multithread
    /\ calcPc = "seq_head"
    /\ current_iteration = MaxIter
    /\ ~stop_event
    /\ mainPc = "poll"

\* The configuration is invalid: of the parameters calculate_pi takes,
\* only time_limit can be (a negative number of seconds).
InvalidConfiguration == time_limit # None /\ time_limit[1] < 0

\* C15: with an invalid configuration no background thread is started and
\* the caller gets a failure: neither the calculation thread nor the timer
\* thread ever leaves its unstarted state, and calculate_pi does not go on
\* to poll.
C15_InvalidConfigurationRejected ==
    InvalidConfiguration =>
        /\ calcPc = "unstarted"
        /\ timerPc = "unstarted"
        /\ mainPc = "start_thread"

\* C16: when the sequential engine has returned (and before its value is
\* stored over the last snapshot): the returned precision is that of the
\* last snapshot, or base_precision if there is none; the returned
\* iteration count is at least the last snapshot's and less than 10 above
\* it; and the returned triple is the last snapshot's triple exactly when
\* the iteration count is a positive multiple of 10.
C16_ReturnVersusLastSnapshot ==
    (~use_multithread /\ calcPc = "store_pi") =>
        LET r == retval[1]
            n == Len(reported)
            lastIter == IF n = 0 THEN 0 ELSE reported[n][1]
            lastPrec == IF n = 0 THEN BASE_PRECISION ELSE reported[n][2]
            sameTriple == /\ n > 0
                          /\ current_results.pi = Some(r.pi)
                          /\ current_results.iterations = r.iterations
                          /\ current_results.precision = r.precision
        IN  /\ n > 0 => /\ current_results.iterations = lastIter
                        /\ current_results.precision = lastPrec
            /\ r.precision = lastPrec
            /\ r.iterations >= lastIter
            /\ r.iterations - lastIter < 10
            /\ sameTriple <=> (r.iterations > 0 /\ r.iterations % 10 = 0)

\* The engine has returned on a step boundary with the triple of its last
\* snapshot.
C16_Witness ==
    /\ ~use_multithread
    /\ calcPc = "store_pi"
    /\ retval[1].iterations = 20
    /\ current_results.pi = Some(retval[1].pi)
    /\ current_results.iterations = 20

\* C17: once an engine is initialised, the precision never decreases and
\* changes only at a step boundary: a step taken while the iteration index
\* is no multiple of 10 changes neither the precision nor the reports;
\* every change of the precision is an increase by exactly 100, made at a
\* positive multiple of 10 and followed at once by the reporter call; and
\* every reporter call is the one call that follows such an increase.
C17_PrecisionChangesOnlyAtBoundary ==
    [][calcPc \notin {"unstarted", "begin", "seq_init", "mt_init"} =>
         /\ precision' >= precision
         /\ precision' # precision =>
               /\ precision' = precision + 100
               /\ ctxPrec' = precision'
               /\ current_iteration > 0
               /\ current_iteration % 10 = 0
               /\ calcPc' = "callback"
               /\ reported' = reported
         /\ reported' # reported =>
               /\ calcPc = "callback"
               /\ reported' = Append(reported, <<current_iteration, precision>>)
               /\ precision' = precision
               /\ calcPc' # "callback"
         /\ current_iteration % 10 # 0 =>
               /\ precision' = precision
               /\ reported' = reported
         /\ precision = BASE_PRECISION
                + 100 * (Len(reported) + IF calcPc = "callback" THEN 1 ELSE 0)
      ]_vars

\* The sequential engine has raised the precision at iteration 10 and made
\* the one reporter call for it, after nine iterations without either.
C17_Witness ==
    /\ ~use_multithread
    /\ calcPc = "cb_pi"
    /\ current_iteration = 10
    /\ precision = 1100
    /\ reported = <<<<10, 1100>>>>

\* C18: all workers of a batch compute under one precision, the copy of
\* the engine's precision taken at dispatch: every term of every result
\* carries it; while the workers run the engine's precision is still that
\* value; and the engine is past pool.map (and so able to raise) only when
\* every worker has returned.
C18_WorkersShareDispatchPrecision ==
    (use_multithread /\ chunks # <<>>) =>
        /\ \A t \in 1..threads :
              /\ chunks[t].precision = chunks[1].precision
              /\ results[t] # None =>
                    \A j \in 1..Len(results[t][1]) :
                        results[t][1][j].prec = chunks[1].precision
        /\ calcPc = "mt_map" =>
              /\ precision = chunks[1].precision
              /\ ctxPrec = chunks[1].precision
        /\ calcPc \in {"mt_pi", "mt_advance", "mt_raise", "callback", "cb_pi",
                       "cb_iterations", "cb_precision"} =>
              \A t \in 1..threads : results[t] # None
        /\ precision \in {chunks[1].precision, NewPrecision(chunks[1].precision)}

\* In the second batch of two workers, one has returned and the other
\* still runs.
C18_Witness ==
    /\ use_multithread
    /\ threads = 2
    /\ calcPc = "mt_map"
    /\ chunks[1].precision = 1100
    /\ results[1] # None
    /\ results[2] = None

\* calculate_pi has read the shared dict into pi_value, precision and
\* iterations (lines 239-241).
CallerHasTriple ==
    mainPc = "return" \/ (mainPc = "done" /\ ret[1].pi_value # None)

\* C19: the triple that calculate_pi displays, saves and returns is the
\* triple of one single emission of the engine (a snapshot or the return
\* value), never a mix of the fields of two; also after a manual
\* interrupt.
C19_CallerTripleIsOneEmission ==
    CallerHasTriple =>
        \E n \in 1..Len(emitted) :
            /\ final.pi_value = Some(emitted[n].pi)
            /\ final.precision = emitted[n].precision
            /\ final.iterations = emitted[n].iterations

\* C20: at every iteration of the sequential engine the recurrence
\* variables are stored exactly: the digits that L, X and K need never
\* exceed the context precision, the number of digits a Decimal result
\* keeps, so that no product or sum of lines 36, 37 and 39 is rounded.
\* (M needs fewer digits than X throughout: each step multiplies M by less
\* than 12^3 and X by more than 10^14.)
C20_RecurrenceStoredExactly ==
    (~use_multithread /\ calcPc \in {"seq_head", "seq_return", "store_pi"}) =>
        /\ DigitsL(L) <= ctxPrec
        /\ DigitsX(X) <= ctxPrec
        /\ DigitsK(K) <= ctxPrec

====
